---- MODULE Spec2Model ----
(***************************************************************************)
(* State-machine model of the music-master multiplayer server: the player  *)
(* registry (PlayerManager), the room store (RoomManager), the team        *)
(* assigner (TeamManager), the turn coordinator (TurnManager) and the      *)
(* Socket.IO request handlers that drive them (handlers/socketHandlers.js).*)
(* Every handler runs to completion as one action: Node runs a synchronous *)
(* listener without interleaving. SpecSuspend alone takes the processing   *)
(* of an accepted move to suspend between lockTurn and unlockTurn.         *)
(***************************************************************************)
EXTENDS Integers, Sequences, FiniteSets, TLC

\* ---------------------------------------------------------------- bounds
\* Number of transport connections (socket ids) over the life of the server.
NumSockets == 3
\* Number of distinct codes the room-code generator can return.
NumRooms == 2
\* Largest team count a start-game request asks for.
MaxTeams == 2
\* Cap on the turn counter (advanceTurn is not taken beyond it).
MaxTurn == 2
\* Number of rooms whose game is started at the same time.
MaxStarted == 1
\* Number of make-move handlers suspended at the same time.
MaxInflight == 2
\* Largest team count of a start-game request while moves may suspend.
MaxTeamsSuspended == 1

\* ------------------------------------------------------ program constants
MAX_PLAYERS_PER_ROOM == 20
MIN_PLAYERS_TO_START == 2
\* JavaScript null (an absent room id, team id or host).
NULL == -1

Sockets == 1..NumSockets
RoomIds == 1..NumRooms

VARIABLES
    players,    \* PlayerManager.players: socket id -> player record
    closed,     \* socket ids whose connection has ended (ids are never reused)
    rooms,      \* RoomManager.rooms: room code -> room record
    inflight,   \* make-move handlers suspended between lockTurn and unlockTurn
    observe,    \* whether the run records each request in `last`
    last        \* the last request handled and what the handler answered

vars == <<players, closed, rooms, inflight, observe, last>>

\* ------------------------------------------------------------- sequences
\* Array.prototype.indexOf + splice(index, 1) / Map.prototype.delete:
\* drop the first occurrence of x.
RECURSIVE SeqRemove(_, _)
SeqRemove(seq, x) ==
    IF seq = <<>> THEN <<>>
    ELSE IF Head(seq) = x THEN Tail(seq)
    ELSE <<Head(seq)>> \o SeqRemove(Tail(seq), x)

SeqRange(seq) == {seq[i] : i \in 1..Len(seq)}

\* Map.prototype.set: a new key goes last, an existing key keeps its place.
MapSet(seq, x) == IF x \in SeqRange(seq) THEN seq ELSE Append(seq, x)

\* ------------------------------------------------------- player registry
NoPlayer == [present |-> FALSE, roomId |-> NULL, teamId |-> NULL]

\* PlayerManager.createPlayer
NewPlayer == [present |-> TRUE, roomId |-> NULL, teamId |-> NULL]

\* Mutant of SetPlayerRoom: a player set to no room is dropped from the
\* registry.
SetPlayerRoomDrops(reg, socketId, roomId) ==
    IF reg[socketId].present
    THEN IF roomId = NULL
         THEN [reg EXCEPT ![socketId] = NoPlayer]
         ELSE [reg EXCEPT ![socketId].roomId = roomId]
    ELSE reg

\* PlayerManager.setPlayerRoom
SetPlayerRoom(reg, socketId, roomId) ==
    IF reg[socketId].present
    THEN [reg EXCEPT ![socketId].roomId = roomId]
    ELSE reg

\* PlayerManager.setPlayerTeam
SetPlayerTeam(reg, socketId, teamId) ==
    IF reg[socketId].present
    THEN [reg EXCEPT ![socketId].teamId = teamId]
    ELSE reg

\* PlayerManager.removePlayer
RemovePlayer(reg, socketId) == [reg EXCEPT ![socketId] = NoPlayer]

\* ------------------------------------------------------------ room store
NoRoom ==
    [present |-> FALSE, hostSocketId |-> NULL, players |-> <<>>, teams |-> <<>>,
     currentTurn |-> 0, gameStarted |-> FALSE, turnLocked |-> FALSE]

\* The room object RoomManager.createRoom stores.
NewRoom(hostSocketId) ==
    [present |-> TRUE, hostSocketId |-> hostSocketId, players |-> <<>>,
     teams |-> <<>>, currentTurn |-> 0, gameStarted |-> FALSE,
     turnLocked |-> FALSE]

\* RoomManager.roomExists
RoomExists(rms, roomId) == rms[roomId].present

\* Mutant of FreeCodes: createRoom takes the generated code without looking
\* it up in the store.
FreeCodesUnchecked(rms) == RoomIds

\* Codes generateRoomCode can return for which createRoom stops retrying.
FreeCodes(rms) == {id \in RoomIds : ~RoomExists(rms, id)}

\* Mutant of AddPlayerResult: a started room still takes members.
AddPlayerResultLate(rms, roomId) ==
    IF ~RoomExists(rms, roomId) THEN "Room not found"
    ELSE IF Len(rms[roomId].players) >= MAX_PLAYERS_PER_ROOM THEN "Room is full"
    ELSE "ok"

\* Mutant of AddPlayerResult: the capacity test is off by one.
AddPlayerResultOffByOne(rms, roomId) ==
    IF ~RoomExists(rms, roomId) THEN "Room not found"
    ELSE IF rms[roomId].gameStarted THEN "Game already started"
    ELSE IF Len(rms[roomId].players) > MAX_PLAYERS_PER_ROOM THEN "Room is full"
    ELSE "ok"

\* RoomManager.addPlayerToRoom: the message it returns ("ok" for success).
AddPlayerResult(rms, roomId) ==
    IF ~RoomExists(rms, roomId) THEN "Room not found"
    ELSE IF rms[roomId].gameStarted THEN "Game already started"
    ELSE IF Len(rms[roomId].players) >= MAX_PLAYERS_PER_ROOM THEN "Room is full"
    ELSE "ok"

\* Mutant of AddPlayerToRoom: the player is added to every room in the lobby.
AddPlayerToEveryRoom(rms, roomId, socketId) ==
    IF AddPlayerResult(rms, roomId) = "ok"
    THEN [r \in RoomIds |->
            IF rms[r].present /\ ~rms[r].gameStarted
            THEN [rms[r] EXCEPT !.players = MapSet(@, socketId)]
            ELSE rms[r]]
    ELSE rms

\* RoomManager.addPlayerToRoom: the store afterwards.
AddPlayerToRoom(rms, roomId, socketId) ==
    IF AddPlayerResult(rms, roomId) = "ok"
    THEN [rms EXCEPT ![roomId].players = MapSet(@, socketId)]
    ELSE rms

\* Mutant of NextHost: no host transfer.
NextHostKept(room, socketId, remaining) == room.hostSocketId

\* Mutant of NextHost: the member that joined last becomes host.
NextHostLatest(room, socketId, remaining) ==
    IF room.hostSocketId = socketId
    THEN remaining[Len(remaining)]
    ELSE room.hostSocketId

\* The host after a removal that leaves `remaining` in the room.
NextHost(room, socketId, remaining) ==
    IF room.hostSocketId = socketId THEN remaining[1] ELSE room.hostSocketId

\* Mutant of DeleteRoom: the room stays in the store.
DeleteRoomSkipped(rms, roomId) == rms

\* RoomManager.deleteRoom
DeleteRoom(rms, roomId) == [rms EXCEPT ![roomId] = NoRoom]

\* RoomManager.removePlayerFromRoom: what the call did. "not-found" is
\* {success: false}; "deleted" is shouldDeleteRoom; "host-transferred" is
\* the branch that logs the host transfer; "left" is any other success.
RemovalOutcome(rms, roomId, socketId) ==
    IF ~RoomExists(rms, roomId) THEN "not-found"
    ELSE IF Len(SeqRemove(rms[roomId].players, socketId)) = 0 THEN "deleted"
    ELSE IF rms[roomId].hostSocketId = socketId THEN "host-transferred"
    ELSE "left"

\* Mutant of RemovePlayerFromRoom: an emptied room is not deleted.
RemovePlayerKeepsRoom(rms, roomId, socketId) ==
    IF ~RoomExists(rms, roomId) THEN rms
    ELSE [rms EXCEPT ![roomId].players = SeqRemove(@, socketId)]

\* Mutant of RemovePlayerFromRoom: a removal also releases the turn lock.
RemovePlayerUnlocks(rms, roomId, socketId) ==
    IF ~RoomExists(rms, roomId) THEN rms
    ELSE
        LET room == rms[roomId]
            remaining == SeqRemove(room.players, socketId)
            teams == [i \in 1..Len(room.teams) |->
                        [room.teams[i] EXCEPT !.players = SeqRemove(@, socketId)]]
        IN  IF Len(remaining) = 0
            THEN DeleteRoom(rms, roomId)
            ELSE [rms EXCEPT ![roomId] =
                    [room EXCEPT !.players = remaining,
                                 !.teams = teams,
                                 !.turnLocked = FALSE,
                                 !.hostSocketId = NextHost(room, socketId, remaining)]]

\* Mutant of RemovePlayerFromRoom: the team lists are left as they were.
RemovePlayerKeepsTeams(rms, roomId, socketId) ==
    IF ~RoomExists(rms, roomId) THEN rms
    ELSE
        LET room == rms[roomId]
            remaining == SeqRemove(room.players, socketId)
        IN  IF Len(remaining) = 0
            THEN DeleteRoom(rms, roomId)
            ELSE [rms EXCEPT ![roomId] =
                    [room EXCEPT !.players = remaining,
                                 !.hostSocketId = NextHost(room, socketId, remaining)]]

\* Mutant of RemovePlayerFromRoom: a team left without members is dropped
\* from the room.
RemovePlayerDropsTeam(rms, roomId, socketId) ==
    IF ~RoomExists(rms, roomId) THEN rms
    ELSE
        LET room == rms[roomId]
            remaining == SeqRemove(room.players, socketId)
            teams == [i \in 1..Len(room.teams) |->
                        [room.teams[i] EXCEPT !.players = SeqRemove(@, socketId)]]
        IN  IF Len(remaining) = 0
            THEN DeleteRoom(rms, roomId)
            ELSE [rms EXCEPT ![roomId] =
                    [room EXCEPT !.players = remaining,
                                 !.teams = SelectSeq(teams,
                                            LAMBDA t : Len(t.players) > 0),
                                 !.hostSocketId = NextHost(room, socketId, remaining)]]

\* RoomManager.removePlayerFromRoom: the store afterwards.
RemovePlayerFromRoom(rms, roomId, socketId) ==
    IF ~RoomExists(rms, roomId) THEN rms
    ELSE
        LET room == rms[roomId]
            remaining == SeqRemove(room.players, socketId)
            teams == [i \in 1..Len(room.teams) |->
                        [room.teams[i] EXCEPT !.players = SeqRemove(@, socketId)]]
        IN  IF Len(remaining) = 0
            THEN DeleteRoom(rms, roomId)
            ELSE [rms EXCEPT ![roomId] =
                    [room EXCEPT !.players = remaining,
                                 !.teams = teams,
                                 !.hostSocketId = NextHost(room, socketId, remaining)]]

\* ---------------------------------------------------------- team assigner
\* const teamNames in createTeams
TeamNames == <<"Red", "Blue", "Green", "Yellow", "Purple", "Orange">>

\* Mutant of TeamName: every name is generated.
TeamNameGenerated(i) == "Team " \o ToString(i + 1)

\* teamNames[i] || `Team ${i + 1}` for the 0-based team index i
TeamName(i) ==
    IF i < Len(TeamNames) THEN TeamNames[i + 1] ELSE "Team " \o ToString(i + 1)

\* TeamManager.createTeams: ids 0..numTeams-1, no members (none for n <= 0).
CreateTeams(numTeams) ==
    [i \in 1..numTeams |->
        [id |-> i - 1, name |-> TeamName(i - 1), players |-> <<>>, score |-> 0]]

\* The random indices one run of shuffleArray can draw: j in 0..i for every
\* i from length-1 down to 1 (positions are 1-based here).
ShuffleChoices(n) ==
    {js \in [2..n -> 1..n] : \A i \in 2..n : js[i] <= i}

\* Mutant of Swap: the element at j is copied to i and not exchanged.
SwapLossy(arr, i, j) == [arr EXCEPT ![i] = arr[j]]

\* [shuffled[i], shuffled[j]] = [shuffled[j], shuffled[i]]
Swap(arr, i, j) == [arr EXCEPT ![i] = arr[j], ![j] = arr[i]]

\* TeamManager.shuffleArray (Fisher-Yates), the loop from position i down.
RECURSIVE FisherYates(_, _, _)
FisherYates(arr, i, js) ==
    IF i <= 1 THEN arr
    ELSE FisherYates(Swap(arr, i, js[i]), i - 1, js)

ShuffleArray(array, js) == FisherYates(array, Len(array), js)

\* The team a shuffled player at 0-based position index is pushed to.
TeamIndexOf(index, numTeams) == index % numTeams

\* TeamManager.assignPlayersToTeams, the distribution loop from 1-based
\* position k: push the player to its team and record the team in the
\* registry. st is [teams, reg].
RECURSIVE Distribute(_, _, _)
Distribute(shuffled, k, st) ==
    IF k > Len(shuffled) THEN st
    ELSE
        LET t == TeamIndexOf(k - 1, Len(st.teams)) + 1
            team == st.teams[t]
        IN  Distribute(shuffled, k + 1,
                [teams |-> [st.teams EXCEPT ![t].players = Append(@, shuffled[k])],
                 reg |-> SetPlayerTeam(st.reg, shuffled[k], team.id)])

\* TeamManager.assignPlayersToTeams throws (teams[NaN] is undefined) when
\* there is a player to place and no team.
AssignThrows(playersSeq, teams) == Len(playersSeq) > 0 /\ Len(teams) = 0

\* TeamManager.assignPlayersToTeams: [teams, reg] afterwards.
AssignPlayersToTeams(playersSeq, teams, reg, js) ==
    Distribute(ShuffleArray(playersSeq, js), 1,
               [teams |-> [i \in 1..Len(teams) |-> [teams[i] EXCEPT !.players = <<>>]],
                reg |-> reg])

TeamSizes(teams) == [i \in 1..Len(teams) |-> Len(teams[i].players)]

MinSize(teams) ==
    CHOOSE m \in SeqRange(TeamSizes(teams)) :
        \A i \in 1..Len(teams) : m <= Len(teams[i].players)

MaxSize(teams) ==
    CHOOSE m \in SeqRange(TeamSizes(teams)) :
        \A i \in 1..Len(teams) : m >= Len(teams[i].players)

\* sortedTeams[0] of the stable ascending sort: the first team of least size.
SmallestTeam(teams) ==
    CHOOSE i \in 1..Len(teams) :
        /\ Len(teams[i].players) = MinSize(teams)
        /\ \A j \in 1..(i - 1) : Len(teams[j].players) # MinSize(teams)

\* sortedTeams[length-1] of the stable ascending sort: the last team of
\* greatest size.
LargestTeam(teams) ==
    CHOOSE i \in 1..Len(teams) :
        /\ Len(teams[i].players) = MaxSize(teams)
        /\ \A j \in (i + 1)..Len(teams) : Len(teams[j].players) # MaxSize(teams)

\* Mutant of MoveOne: the registry is not told of the move.
MoveOneNoRegistry(st) ==
    LET lg == LargestTeam(st.teams)
        sm == SmallestTeam(st.teams)
        playerToMove == st.teams[lg].players[Len(st.teams[lg].players)]
    IN  [teams |-> [st.teams EXCEPT
                        ![lg].players = SubSeq(@, 1, Len(@) - 1),
                        ![sm].players = Append(@, playerToMove)],
         reg |-> st.reg]

\* Mutant of MoveOne: the moved player is not popped from the largest team.
MoveOneNoPop(st) ==
    LET lg == LargestTeam(st.teams)
        sm == SmallestTeam(st.teams)
        playerToMove == st.teams[lg].players[Len(st.teams[lg].players)]
    IN  [teams |-> [st.teams EXCEPT ![sm].players = Append(@, playerToMove)],
         reg |-> SetPlayerTeam(st.reg, playerToMove, st.teams[sm].id)]

\* One move of balanceTeams: pop the last member of the largest team, push
\* it to the smallest team, record the new team in the registry.
MoveOne(st) ==
    LET lg == LargestTeam(st.teams)
        sm == SmallestTeam(st.teams)
        playerToMove == st.teams[lg].players[Len(st.teams[lg].players)]
    IN  [teams |-> [st.teams EXCEPT
                        ![lg].players = SubSeq(@, 1, Len(@) - 1),
                        ![sm].players = Append(@, playerToMove)],
         reg |-> SetPlayerTeam(st.reg, playerToMove, st.teams[sm].id)]

\* TeamManager.balanceTeams on a non-empty team list: [teams, reg] afterwards.
RECURSIVE BalanceTeams(_)
BalanceTeams(st) ==
    IF MaxSize(st.teams) - MinSize(st.teams) > 1
    THEN BalanceTeams(MoveOne(st))
    ELSE st

\* ------------------------------------------------------- turn coordinator
\* Mutant of InitializeTurns: the first turn is numbered 1.
InitializeTurnsAtOne(room) ==
    [room EXCEPT !.currentTurn = 1, !.turnLocked = FALSE]

\* TurnManager.initializeTurns
InitializeTurns(room) == [room EXCEPT !.currentTurn = 0, !.turnLocked = FALSE]

HasCurrentTeam(room) == Len(room.teams) > 0

\* TurnManager.getCurrentTeam (for a room with teams)
GetCurrentTeam(room) == room.teams[(room.currentTurn % Len(room.teams)) + 1]

\* TurnManager.getCurrentTeamId
GetCurrentTeamId(room) ==
    IF HasCurrentTeam(room) THEN GetCurrentTeam(room).id ELSE NULL

\* Mutant of ValidateTurn: the lock is tested before gameStarted.
ValidateTurnLockFirst(room, socketId, reg) ==
    IF room.turnLocked THEN "Turn is locked, please wait"
    ELSE IF ~room.gameStarted THEN "Game has not started"
    ELSE IF ~HasCurrentTeam(room) THEN "No teams configured"
    ELSE IF ~reg[socketId].present THEN "Player not found"
    ELSE IF reg[socketId].teamId # GetCurrentTeam(room).id THEN "Not your turn"
    ELSE "ok"

\* TurnManager.validateTurn: "ok" for {valid: true}, else the message.
ValidateTurn(room, socketId, reg) ==
    IF ~room.gameStarted THEN "Game has not started"
    ELSE IF room.turnLocked THEN "Turn is locked, please wait"
    ELSE IF ~HasCurrentTeam(room) THEN "No teams configured"
    ELSE IF ~reg[socketId].present THEN "Player not found"
    ELSE IF reg[socketId].teamId # GetCurrentTeam(room).id THEN "Not your turn"
    ELSE "ok"

\* TurnManager.lockTurn
LockTurn(room) == [room EXCEPT !.turnLocked = TRUE]

\* TurnManager.unlockTurn
UnlockTurn(room) == [room EXCEPT !.turnLocked = FALSE]

\* Mutant of AdvanceTurn: the turn is unlocked but the counter is not
\* incremented.
AdvanceTurnKeeps(room) == [room EXCEPT !.turnLocked = FALSE]

\* Mutant of AdvanceTurn: the counter is kept as a team index, wrapped at
\* the team count.
AdvanceTurnWraps(room) ==
    [room EXCEPT !.currentTurn = IF Len(room.teams) = 0 THEN @ + 1
                                 ELSE (@ + 1) % Len(room.teams),
                 !.turnLocked = FALSE]

\* Mutant of AdvanceTurn: advancing the turn also ends the game.
AdvanceTurnEndsGame(room) ==
    [room EXCEPT !.currentTurn = @ + 1, !.turnLocked = FALSE,
                 !.gameStarted = FALSE]

\* Mutant of AdvanceTurn: the counter skips a turn.
AdvanceTurnSkips(room) ==
    [room EXCEPT !.currentTurn = @ + 2, !.turnLocked = FALSE]

\* TurnManager.advanceTurn (on a started room)
AdvanceTurn(room) ==
    [room EXCEPT !.currentTurn = @ + 1, !.turnLocked = FALSE]

\* TurnManager.advanceTurn: what the call yields. A room that is not started
\* is refused; in a started room without teams the counter is incremented
\* and reading newTeam.name then throws.
AdvanceTurnResult(room) ==
    IF ~room.gameStarted THEN "Game has not started"
    ELSE IF ~HasCurrentTeam(room) THEN "TypeError"
    ELSE "ok"

\* teams.findIndex(t => t.id === teamId): the 0-based index, -1 when no
\* team has the id.
RECURSIVE FindIndex(_, _, _)
FindIndex(teams, teamId, i) ==
    IF i > Len(teams) THEN -1
    ELSE IF teams[i].id = teamId THEN i - 1
    ELSE FindIndex(teams, teamId, i + 1)

\* TurnManager.setTurn
SetTurn(room, teamId) ==
    IF FindIndex(room.teams, teamId, 1) # -1
    THEN [room EXCEPT !.currentTurn = FindIndex(room.teams, teamId, 1),
                      !.turnLocked = FALSE]
    ELSE room

\* TurnManager.resetTurns
ResetTurns(room) == [room EXCEPT !.currentTurn = 0, !.turnLocked = FALSE]

\* RoomManager.startGame: the message it returns ("ok" for success).
StartGameResult(rms, roomId) ==
    IF ~RoomExists(rms, roomId) THEN "Room not found"
    ELSE IF rms[roomId].gameStarted THEN "Game already started"
    ELSE IF Len(rms[roomId].players) < MIN_PLAYERS_TO_START
         THEN "Need at least 2 players"
    ELSE "ok"

\* ------------------------------------------------------------------ Init
NoRequest == [op |-> "none", s |-> NULL, r |-> NULL, resp |-> "none"]

\* Record the request just handled (in runs that observe requests).
Note(op, s, r, msg) ==
    last' = IF observe THEN [op |-> op, s |-> s, r |-> r, resp |-> msg] ELSE last

Start ==
    /\ players = [s \in Sockets |-> NoPlayer]
    /\ closed = {}
    /\ rooms = [r \in RoomIds |-> NoRoom]
    /\ inflight = {}
    /\ last = NoRequest

Init == Start /\ observe = FALSE

InitObs == Start /\ observe = TRUE

\* --------------------------------------------------------------- handlers
\* Requests carry a well-formed payload and an acknowledgement callback.

\* io.on('connection'): a new socket id registers its player.
Connect(s) ==
    /\ ~players[s].present
    /\ s \notin closed
    /\ players' = [players EXCEPT ![s] = NewPlayer]
    /\ Note("connection", s, NULL, "player-created")
    /\ UNCHANGED <<closed, rooms, inflight, observe>>

\* socket.on('create-room'): createRoom retries until the generated code is
\* free; with no free code the recursion overflows the stack and the
\* handler's catch answers 'Failed to create room'.
CreateRoom(s) ==
    /\ players[s].present
    /\ IF FreeCodes(rooms) = {}
       THEN /\ Note("create-room", s, NULL, "Failed to create room")
            /\ UNCHANGED <<players, rooms>>
       ELSE \E id \in FreeCodes(rooms) :
            /\ rooms' = AddPlayerToRoom([rooms EXCEPT ![id] = NewRoom(s)], id, s)
            /\ players' = SetPlayerRoom(players, s, id)
            /\ Note("create-room", s, id, "ok")
    /\ UNCHANGED <<closed, inflight, observe>>

\* socket.on('join-room')
JoinRoom(s, roomId) ==
    /\ players[s].present
    /\ rooms' = AddPlayerToRoom(rooms, roomId, s)
    /\ players' = IF AddPlayerResult(rooms, roomId) = "ok"
                  THEN SetPlayerRoom(players, s, roomId)
                  ELSE players
    /\ Note("join-room", s, roomId, AddPlayerResult(rooms, roomId))
    /\ UNCHANGED <<closed, inflight, observe>>

\* A suspended make-move handler holds the room object it resolved; once
\* deleteRoom has dropped that object from the store the handler's reference
\* is stale: the code may later name another room.
Detach(handlers, rms) ==
    {[h EXCEPT !.stale = h.stale \/ ~rms[h.r].present] : h \in handlers}

\* socket.on('leave-room'): always acknowledged; `last` keeps what
\* removePlayerFromRoom did.
LeaveRoom(s, roomId) ==
    /\ players[s].present
    /\ rooms' = RemovePlayerFromRoom(rooms, roomId, s)
    /\ players' = SetPlayerRoom(players, s, NULL)
    /\ Note("leave-room", s, roomId, RemovalOutcome(rooms, roomId, s))
    /\ inflight' = Detach(inflight, rooms')
    /\ UNCHANGED <<closed, observe>>

\* socket.on('disconnect'): leaves the room the registry records, then
\* removes the player.
Disconnect(s) ==
    /\ players[s].present
    /\ IF players[s].roomId # NULL
       THEN /\ rooms' = RemovePlayerFromRoom(rooms, players[s].roomId, s)
            /\ Note("disconnect", s, players[s].roomId,
                    RemovalOutcome(rooms, players[s].roomId, s))
       ELSE /\ UNCHANGED rooms
            /\ Note("disconnect", s, NULL, "none")
    /\ players' = RemovePlayer(players, s)
    /\ closed' = closed \cup {s}
    /\ inflight' = Detach(inflight, rooms')
    /\ UNCHANGED observe

\* Mutant of StartGameCheck: the caller is not compared with the host.
StartGameCheckAnyone(s, roomId) ==
    IF ~RoomExists(rooms, roomId) THEN "Room not found"
    ELSE StartGameResult(rooms, roomId)

\* What the start-game handler answers before it creates the teams ("ok"
\* when startGame has set gameStarted).
StartGameCheck(s, roomId) ==
    IF ~RoomExists(rooms, roomId) THEN "Room not found"
    ELSE IF rooms[roomId].hostSocketId # s THEN "Only host can start game"
    ELSE StartGameResult(rooms, roomId)

\* RoomManager.startGame (success path)
MarkStarted(room) == [room EXCEPT !.gameStarted = TRUE]

\* The start-game handler after startGame succeeded, when no team can take
\* the first player: assignPlayersToTeams throws and the handler's catch
\* answers 'Failed to start game'.
StartGameThrown(s, roomId, numTeams) ==
    /\ rooms' = [rooms EXCEPT ![roomId] =
                    [MarkStarted(@) EXCEPT !.teams = CreateTeams(numTeams)]]
    /\ Note("start-game", s, roomId, "Failed to start game")
    /\ UNCHANGED players

\* The start-game handler after startGame succeeded: createTeams,
\* assignPlayersToTeams, balanceTeams, initializeTurns.
StartGameTeams(s, roomId, numTeams) ==
    \E js \in ShuffleChoices(Len(rooms[roomId].players)) :
        LET st == BalanceTeams(
                    AssignPlayersToTeams(rooms[roomId].players,
                                         CreateTeams(numTeams), players, js))
        IN  /\ rooms' = [rooms EXCEPT ![roomId] =
                    InitializeTurns([MarkStarted(@) EXCEPT !.teams = st.teams])]
            /\ players' = st.reg
            /\ Note("start-game", s, roomId, "ok")

\* socket.on('start-game')
StartGame(s, roomId, numTeams) ==
    /\ players[s].present
    /\ UNCHANGED <<closed, inflight, observe>>
    /\ IF StartGameCheck(s, roomId) # "ok"
       THEN /\ Note("start-game", s, roomId, StartGameCheck(s, roomId))
            /\ UNCHANGED <<players, rooms>>
       ELSE /\ Cardinality({r \in RoomIds : rooms[r].gameStarted}) < MaxStarted
            /\ IF AssignThrows(rooms[roomId].players, CreateTeams(numTeams))
               THEN StartGameThrown(s, roomId, numTeams)
               ELSE StartGameTeams(s, roomId, numTeams)

\* Mutant of MakeMoveCatch: the catch block answers without unlocking.
MakeMoveCatchNoUnlock(rms, roomId) == rms

\* The catch block of the make-move handler: re-resolve the room by id and
\* unlock it.
MakeMoveCatch(rms, roomId) ==
    IF RoomExists(rms, roomId)
    THEN [rms EXCEPT ![roomId] = UnlockTurn(@)]
    ELSE rms

\* The accepted path of the make-move handler after validation: lockTurn,
\* the broadcast, unlockTurn; when the broadcast throws, the catch block.
ApplyMove(rms, roomId, fails) ==
    LET locked == [rms EXCEPT ![roomId] = LockTurn(@)]
    IN  IF fails
        THEN MakeMoveCatch(locked, roomId)
        ELSE [locked EXCEPT ![roomId] = UnlockTurn(@)]

\* What the make-move handler answers before it takes the lock ("ok" when
\* the move is accepted).
MakeMoveCheck(s, roomId) ==
    IF ~RoomExists(rooms, roomId) THEN "Room not found"
    ELSE ValidateTurn(rooms[roomId], s, players)

\* socket.on('make-move'), run to completion. `fails`: the broadcast after
\* lockTurn throws.
MakeMove(s, roomId, fails) ==
    /\ players[s].present
    /\ UNCHANGED <<players, closed, inflight, observe>>
    /\ IF MakeMoveCheck(s, roomId) # "ok"
       THEN /\ Note("make-move", s, roomId, MakeMoveCheck(s, roomId))
            /\ UNCHANGED rooms
       ELSE /\ rooms' = ApplyMove(rooms, roomId, fails)
            /\ Note("make-move", s, roomId,
                    IF fails THEN "Failed to make move" ELSE "ok")

\* socket.on('make-move') up to the point where the move is processed, the
\* processing taken to suspend there: validation, then lockTurn.
MakeMoveBegin(s, roomId) ==
    /\ players[s].present
    /\ UNCHANGED <<players, closed, observe>>
    /\ IF MakeMoveCheck(s, roomId) # "ok"
       THEN /\ Note("make-move", s, roomId, MakeMoveCheck(s, roomId))
            /\ UNCHANGED <<rooms, inflight>>
       ELSE /\ Cardinality(inflight) < MaxInflight
            /\ rooms' = [rooms EXCEPT ![roomId] = LockTurn(@)]
            /\ inflight' = inflight \cup
                    {[s |-> s, r |-> roomId, stale |-> FALSE]}
            /\ Note("make-move", s, roomId, "suspended")

\* The rest of a suspended make-move handler: unlockTurn on the room object
\* it holds, or, when the processing threw, the catch block, which looks the
\* room up again by its code.
MakeMoveResume(h, fails) ==
    /\ h \in inflight
    /\ inflight' = inflight \ {h}
    /\ rooms' = IF fails THEN MakeMoveCatch(rooms, h.r)
                ELSE IF h.stale THEN rooms
                ELSE [rooms EXCEPT ![h.r] = UnlockTurn(@)]
    /\ Note("make-move", h.s, h.r,
            IF fails THEN "Failed to make move" ELSE "ok")
    /\ UNCHANGED <<players, closed, observe>>

\* What the end-turn handler answers before it advances the turn.
EndTurnCheck(s, roomId) ==
    IF ~RoomExists(rooms, roomId) THEN "Room not found"
    ELSE ValidateTurn(rooms[roomId], s, players)

\* socket.on('end-turn')
EndTurn(s, roomId) ==
    /\ players[s].present
    /\ UNCHANGED <<players, closed, inflight, observe>>
    /\ IF EndTurnCheck(s, roomId) # "ok"
       THEN /\ Note("end-turn", s, roomId, EndTurnCheck(s, roomId))
            /\ UNCHANGED rooms
       ELSE /\ rooms[roomId].currentTurn < MaxTurn
            /\ rooms' = [rooms EXCEPT ![roomId] = AdvanceTurn(@)]
            /\ Note("end-turn", s, roomId, "ok")

\* socket.on('get-room-info')
GetRoomInfo(s, roomId) ==
    /\ players[s].present
    /\ Note("get-room-info", s, roomId,
            IF RoomExists(rooms, roomId) THEN "ok" ELSE "Room not found")
    /\ UNCHANGED <<players, closed, rooms, inflight, observe>>

\* Team counts a start-game request can carry (a count <= 0 creates no team).
NumTeamsInputs == 0..MaxTeams

\* -------------------------------------------------------- specifications
\* The connection, room and roster handlers.
Lobby ==
    \/ \E s \in Sockets : Connect(s)
    \/ \E s \in Sockets : CreateRoom(s)
    \/ \E s \in Sockets, r \in RoomIds : JoinRoom(s, r)
    \/ \E s \in Sockets, r \in RoomIds : LeaveRoom(s, r)
    \/ \E s \in Sockets : Disconnect(s)

\* Every handler of the server.
Next ==
    \/ Lobby
    \/ \E s \in Sockets, r \in RoomIds, n \in NumTeamsInputs : StartGame(s, r, n)
    \/ \E s \in Sockets, r \in RoomIds, f \in BOOLEAN : MakeMove(s, r, f)
    \/ \E s \in Sockets, r \in RoomIds : EndTurn(s, r)
    \/ \E s \in Sockets, r \in RoomIds : GetRoomInfo(s, r)

\* The server under every handler.
Spec == Init /\ [][Next]_vars

\* The connection, room and roster handlers alone, every request recorded
\* in `last`.
SpecObs == InitObs /\ [][Lobby]_vars

\* Every state-changing handler, the processing of an accepted move
\* suspending between lockTurn and unlockTurn.
NextSuspend ==
    \/ \E s \in Sockets : Connect(s)
    \/ \E s \in Sockets : CreateRoom(s)
    \/ \E s \in Sockets, r \in RoomIds : JoinRoom(s, r)
    \/ \E s \in Sockets, r \in RoomIds : LeaveRoom(s, r)
    \/ \E s \in Sockets, r \in RoomIds, n \in 1..MaxTeamsSuspended : StartGame(s, r, n)
    \/ \E s \in Sockets, r \in RoomIds : MakeMoveBegin(s, r)
    \/ \E h \in inflight, f \in BOOLEAN : MakeMoveResume(h, f)

SpecSuspend == Init /\ [][NextSuspend]_vars

\* The handlers that set a game up and play its turns, connections
\* staying open.
NextPlay ==
    \/ \E s \in Sockets : Connect(s)
    \/ \E s \in Sockets : CreateRoom(s)
    \/ \E s \in Sockets, r \in RoomIds : JoinRoom(s, r)
    \/ \E s \in Sockets, r \in RoomIds : LeaveRoom(s, r)
    \/ \E s \in Sockets, r \in RoomIds, n \in NumTeamsInputs : StartGame(s, r, n)
    \/ \E s \in Sockets, r \in RoomIds : EndTurn(s, r)

SpecPlay == Init /\ [][NextPlay]_vars

\* ------------------------------------------------ validateTurn on its own
\* Registry records validateTurn can meet: absent, or present with any team
\* id (a team id outlives the room it was assigned in).
PlayerInputs ==
    {NoPlayer} \cup
    {[present |-> TRUE, roomId |-> NULL, teamId |-> t] :
        t \in {NULL} \cup (0..(MaxTeams - 1))}

\* Rooms validateTurn can be handed: validateTurn reads gameStarted,
\* turnLocked, currentTurn and the ids of the teams.
RoomInputs ==
    {[present |-> TRUE, hostSocketId |-> 1, players |-> <<1>>,
      teams |-> CreateTeams(n), currentTurn |-> k,
      gameStarted |-> g, turnLocked |-> l] :
        n \in 0..MaxTeams, k \in 0..MaxTurn, g \in BOOLEAN, l \in BOOLEAN}

InitValidate ==
    /\ players \in [Sockets -> PlayerInputs]
    /\ \E room \in RoomInputs :
            rooms = [r \in RoomIds |-> IF r = 1 THEN room ELSE NoRoom]
    /\ closed = {}
    /\ inflight = {}
    /\ observe = TRUE
    /\ last = NoRequest

\* turnManager.validateTurn(room, socketId) on room 1.
ValidateTurnCall(s) ==
    /\ Note("validateTurn", s, 1, ValidateTurn(rooms[1], s, players))
    /\ UNCHANGED <<players, closed, rooms, inflight, observe>>

\* validateTurn applied to any room and any connection id.
SpecValidate ==
    InitValidate /\ [][\E s \in Sockets : ValidateTurnCall(s)]_vars

\* ---------------------------------------------------- a room near capacity
\* n members of room 1 that joined over connections other than `Sockets`
\* (their ids follow NumSockets); the first of them is the host.
Crowd(n) == [i \in 1..n |-> NumSockets + i]

\* Sizes of the crowd from which the connections of `Sockets` can fill the
\* room up to its capacity and beyond.
CrowdSizes == (MAX_PLAYERS_PER_ROOM - NumSockets)..MAX_PLAYERS_PER_ROOM

\* Room 1 in the lobby holding a crowd, the connections of `Sockets`
\* registered and in no room.
InitCapacity ==
    /\ \E n \in CrowdSizes :
            rooms = [r \in RoomIds |->
                IF r = 1
                THEN [NewRoom(NumSockets + 1) EXCEPT !.players = Crowd(n)]
                ELSE NoRoom]
    /\ players = [s \in Sockets |-> NewPlayer]
    /\ closed = {}
    /\ inflight = {}
    /\ observe = TRUE
    /\ last = NoRequest

NextCapacity ==
    \/ \E s \in Sockets, r \in RoomIds : JoinRoom(s, r)
    \/ \E s \in Sockets, r \in RoomIds : LeaveRoom(s, r)

\* join-room and leave-room on a room at or near its capacity.
SpecCapacity == InitCapacity /\ [][NextCapacity]_vars

\* ------------------------------------------ the turn operations on their own
\* Any room, no connection registered: the turn operations other than
\* validateTurn read the room only.
InitTurns ==
    /\ players = [s \in Sockets |-> NoPlayer]
    /\ \E room \in RoomInputs :
            rooms = [r \in RoomIds |-> IF r = 1 THEN room ELSE NoRoom]
    /\ closed = {}
    /\ inflight = {}
    /\ observe = TRUE
    /\ last = NoRequest

\* turnManager.lockTurn(room) on room 1.
LockTurnCall ==
    /\ rooms' = [rooms EXCEPT ![1] = LockTurn(@)]
    /\ Note("lockTurn", NULL, 1, "ok")
    /\ UNCHANGED <<players, closed, inflight, observe>>

\* turnManager.unlockTurn(room) on room 1.
UnlockTurnCall ==
    /\ rooms' = [rooms EXCEPT ![1] = UnlockTurn(@)]
    /\ Note("unlockTurn", NULL, 1, "ok")
    /\ UNCHANGED <<players, closed, inflight, observe>>

\* turnManager.advanceTurn(room) on room 1.
AdvanceTurnCall ==
    /\ rooms[1].currentTurn < MaxTurn
    /\ rooms' = IF rooms[1].gameStarted
                THEN [rooms EXCEPT ![1] = AdvanceTurn(@)]
                ELSE rooms
    /\ Note("advanceTurn", NULL, 1, AdvanceTurnResult(rooms[1]))
    /\ UNCHANGED <<players, closed, inflight, observe>>

\* turnManager.setTurn(room, teamId) on room 1.
SetTurnCall(teamId) ==
    /\ rooms' = [rooms EXCEPT ![1] = SetTurn(@, teamId)]
    /\ Note("setTurn", NULL, 1, "ok")
    /\ UNCHANGED <<players, closed, inflight, observe>>

\* turnManager.resetTurns(room) on room 1.
ResetTurnsCall ==
    /\ rooms' = [rooms EXCEPT ![1] = ResetTurns(@)]
    /\ Note("resetTurns", NULL, 1, "ok")
    /\ UNCHANGED <<players, closed, inflight, observe>>

NextTurns ==
    \/ LockTurnCall
    \/ UnlockTurnCall
    \/ AdvanceTurnCall
    \/ \E teamId \in 0..MaxTeams : SetTurnCall(teamId)
    \/ ResetTurnsCall

\* The turn operations applied in any order to any room.
SpecTurns == InitTurns /\ [][NextTurns]_vars

\* ------------------------------- assignPlayersToTeams + balanceTeams alone
\* Member lists of a room: the non-empty sequences of distinct socket ids.
MemberLists ==
    {m \in UNION {[1..n -> Sockets] : n \in 1..NumSockets} :
        \A i, j \in 1..Len(m) : i # j => m[i] # m[j]}

\* A room in the lobby with its members registered.
InitTeams ==
    /\ \E m \in MemberLists :
        /\ rooms = [r \in RoomIds |->
                IF r = 1 THEN [NewRoom(m[1]) EXCEPT !.players = m] ELSE NoRoom]
        /\ players = [s \in Sockets |->
                IF s \in SeqRange(m)
                THEN [present |-> TRUE, roomId |-> 1, teamId |-> NULL]
                ELSE NoPlayer]
    /\ closed = {}
    /\ inflight = {}
    /\ observe = TRUE
    /\ last = NoRequest

\* Team counts the team assigner is applied to on its own.
TeamCounts == 1..(MaxTeams + 1)

\* room.teams = createTeams(n); assignPlayersToTeams(room.players, room.teams)
TeamsAssign(n, js) ==
    /\ last.op = "none"
    /\ LET st == AssignPlayersToTeams(rooms[1].players, CreateTeams(n), players, js)
       IN  /\ rooms' = [rooms EXCEPT ![1].teams = st.teams]
           /\ players' = st.reg
    /\ Note("assignPlayersToTeams", NULL, 1, "ok")
    /\ UNCHANGED <<closed, inflight, observe>>

\* balanceTeams(room.teams)
TeamsBalance ==
    /\ last.op = "assignPlayersToTeams"
    /\ LET st == BalanceTeams([teams |-> rooms[1].teams, reg |-> players])
       IN  /\ rooms' = [rooms EXCEPT ![1].teams = st.teams]
           /\ players' = st.reg
    /\ Note("balanceTeams", NULL, 1, "ok")
    /\ UNCHANGED <<closed, inflight, observe>>

NextTeams ==
    \/ \E n \in TeamCounts :
        \E js \in ShuffleChoices(Len(rooms[1].players)) : TeamsAssign(n, js)
    \/ TeamsBalance

\* The team assigner applied to any member list and team count.
SpecTeams == InitTeams /\ [][NextTeams]_vars

\* ------------------------------------------------------------ properties
Members(r) == SeqRange(rooms[r].players)

\* C1: no connection id is in the member set of two different rooms at the
\* same request boundary.
C1_OneRoomPerConnection ==
    \A s \in Sockets : \A r1, r2 \in RoomIds :
        (RoomExists(rooms, r1) /\ RoomExists(rooms, r2)
            /\ s \in Members(r1) /\ s \in Members(r2)) => r1 = r2

\* C2: at every request boundary every room in the store has at least one
\* member.
C2_NoEmptyRoom ==
    \A r \in RoomIds : RoomExists(rooms, r) => Len(rooms[r].players) >= 1

\* A started room is still stored after a removal emptied one of its teams,
\* some connection has closed and a code is free.
C2_Witness ==
    \E r \in RoomIds, s \in closed :
        /\ RoomExists(rooms, r)
        /\ rooms[r].gameStarted
        /\ FreeCodes(rooms) # {}
        /\ \E t \in 1..Len(rooms[r].teams) : Len(rooms[r].teams[t].players) = 0

\* The removal a leave-room or disconnect step performs on room r for s.
Removes(s, r) ==
    \/ LeaveRoom(s, r)
    \/ Disconnect(s) /\ players[s].roomId = r

\* C3: when a leave-room or disconnect removes the last remaining member of
\* a room, the room is gone from the store in the same step.
C3_LastLeaveDeletes ==
    [][\A s \in Sockets, r \in RoomIds :
        (Removes(s, r) /\ RoomExists(rooms, r) /\ rooms[r].players = <<s>>)
            => ~RoomExists(rooms', r)]_vars

\* The only member of a room has just left it (create-room then leave-room
\* is one way) and the room is gone.
C3_Witness ==
    /\ last.op \in {"leave-room", "disconnect"}
    /\ last.resp = "deleted"
    /\ ~RoomExists(rooms, last.r)

\* C4: at every request boundary the host connection id of every stored
\* room is the connection id of exactly one current member of that room.
C4_HostIsOneMember ==
    \A r \in RoomIds : RoomExists(rooms, r) =>
        Cardinality({i \in 1..Len(rooms[r].players) :
                        rooms[r].players[i] = rooms[r].hostSocketId}) = 1

\* The host has just been removed from a room that others remain in.
C4_Witness ==
    /\ last.resp = "host-transferred"
    /\ RoomExists(rooms, last.r)
    /\ rooms[last.r].hostSocketId # last.s

\* The remaining member of room r that joined earliest when s is removed.
EarliestRemaining(r, s) ==
    LET idx == {i \in 1..Len(rooms[r].players) : rooms[r].players[i] # s}
    IN  rooms[r].players[CHOOSE i \in idx : \A j \in idx : i <= j]

\* C5: removing the host from a room that keeps a member makes the
\* remaining member that joined earliest the host; removing anyone else
\* leaves the host unchanged.
C5_HostTransfer ==
    [][\A s \in Sockets, r \in RoomIds :
        (Removes(s, r) /\ RoomExists(rooms, r) /\ Members(r) \ {s} # {})
            => /\ RoomExists(rooms', r)
               /\ rooms'[r].hostSocketId =
                    IF rooms[r].hostSocketId = s
                    THEN EarliestRemaining(r, s)
                    ELSE rooms[r].hostSocketId]_vars

\* The host has just left a room in which two members remain, and the new
\* host is not the member that joined last.
C5_Witness ==
    /\ last.resp = "host-transferred"
    /\ RoomExists(rooms, last.r)
    /\ Len(rooms[last.r].players) = 2
    /\ rooms[last.r].hostSocketId = rooms[last.r].players[1]
    /\ rooms[last.r].hostSocketId # rooms[last.r].players[2]

\* The current team of room r lists connection s.
InCurrentTeam(s, r) ==
    /\ HasCurrentTeam(rooms[r])
    /\ s \in SeqRange(GetCurrentTeam(rooms[r]).players)

\* C6: a make-move or end-turn request on a room is accepted only if the
\* acting connection is a member of that room and is listed in the room's
\* current team.
C6_AcceptedOnlyFromCurrentTeam ==
    \A s \in Sockets, r \in RoomIds :
        (players[s].present
            /\ (MakeMoveCheck(s, r) = "ok" \/ EndTurnCheck(s, r) = "ok"))
        => (s \in Members(r) /\ InCurrentTeam(s, r))

\* The reason validateTurn gives when the first of the four conditions of
\* the claim that fails is taken, "ok" when none fails.
FourConditions(room, p) ==
    IF ~room.gameStarted THEN "Game has not started"
    ELSE IF room.turnLocked THEN "Turn is locked, please wait"
    ELSE IF ~p.present THEN "Player not found"
    ELSE IF p.teamId # GetCurrentTeamId(room) THEN "Not your turn"
    ELSE "ok"

C9_LockReleased ==
    \A r \in RoomIds : RoomExists(rooms, r) => ~rooms[r].turnLocked

\* A started room in which a make-move of a registered player passes
\* validation: the handler locks, then unlocks or runs its catch block, and
\* ends in this state.
C9_Witness ==
    \E s \in Sockets, r \in RoomIds :
        /\ players[s].present
        /\ MakeMoveCheck(s, r) = "ok"
        /\ rooms[r].currentTurn > 0

RECURSIVE SumSizes(_, _)
SumSizes(teams, t) ==
    IF t > Len(teams) THEN 0
    ELSE Len(teams[t].players) + SumSizes(teams, t + 1)

\* The places (team, position) at which room 1 lists connection s.
Places(s) ==
    {<<t, i>> \in (1..Len(rooms[1].teams)) \X (1..NumSockets) :
        /\ i <= Len(rooms[1].teams[t].players)
        /\ rooms[1].teams[t].players[i] = s}

\* C10: after assignPlayersToTeams followed by balanceTeams, whatever the
\* shuffle drew, the team sizes sum to the player count, every player is in
\* exactly one team and the sizes differ by at most one.
C10_AssignBalance ==
    last.op = "balanceTeams" =>
        /\ SumSizes(rooms[1].teams, 1) = Len(rooms[1].players)
        /\ \A s \in Members(1) : Cardinality(Places(s)) = 1
        /\ \A s \in Sockets \ Members(1) : Places(s) = {}
        /\ MaxSize(rooms[1].teams) - MinSize(rooms[1].teams) <= 1

\* Three players assigned to two teams and balanced: sizes 2 and 1, the
\* shuffle having moved the first member out of first place.
C10_Witness ==
    /\ last.op = "balanceTeams"
    /\ Len(rooms[1].players) = 3
    /\ Len(rooms[1].teams) = 2
    /\ Len(rooms[1].teams[1].players) = 2
    /\ Len(rooms[1].teams[2].players) = 1
    /\ rooms[1].teams[1].players[1] # rooms[1].players[1]

\* advanceTurn applied n times.
RECURSIVE AdvanceTimes(_, _)
AdvanceTimes(room, n) ==
    IF n = 0 THEN room ELSE AdvanceTimes(AdvanceTurn(room), n - 1)

\* C11: in a started room with T >= 1 teams, T applications of advanceTurn
\* bring the current team back to the one that was current, and j < T
\* applications make current the team j places later in the list, wrapping
\* round.
C11_RoundRobin ==
    \A r \in RoomIds :
        (rooms[r].present /\ rooms[r].gameStarted /\ Len(rooms[r].teams) >= 1)
        => LET T == Len(rooms[r].teams)
               at == (rooms[r].currentTurn % T) + 1
           IN  /\ GetCurrentTeam(rooms[r]) = rooms[r].teams[at]
               /\ GetCurrentTeam(AdvanceTimes(rooms[r], T)) = rooms[r].teams[at]
               /\ \A j \in 0..(T - 1) :
                     GetCurrentTeam(AdvanceTimes(rooms[r], j))
                        = rooms[r].teams[((at - 1 + j) % T) + 1]

\* advanceTurn has moved a started room with at least two teams once round
\* its teams.
C11_Witness ==
    /\ last.op = "advanceTurn"
    /\ last.resp = "ok"
    /\ Len(rooms[1].teams) >= 2
    /\ rooms[1].currentTurn >= Len(rooms[1].teams)

\* The turn counter of room 1 does not decrease in a step of one of the
\* operations `ops`, and a successful advanceTurn increases it.
CounterMonotoneUnder(ops) ==
    last'.op \in ops =>
        /\ rooms'[1].currentTurn >= rooms[1].currentTurn
        /\ (last'.op = "advanceTurn" /\ last'.resp = "ok")
                => rooms'[1].currentTurn > rooms[1].currentTurn

\* C15 as claimed: the turn counter never decreases under lockTurn,
\* unlockTurn, advanceTurn and setTurn, and strictly increases on every
\* successful advanceTurn.
C15_CounterMonotone ==
    [][CounterMonotoneUnder({"lockTurn", "unlockTurn", "advanceTurn", "setTurn"})]_vars

\* C15 as amended: the turn counter never decreases under lockTurn,
\* unlockTurn and advanceTurn, and strictly increases on every successful
\* advanceTurn (setTurn and resetTurns may lower it).
C15_CounterMonotoneNoSet ==
    [][CounterMonotoneUnder({"lockTurn", "unlockTurn", "advanceTurn"})]_vars

\* A successful advanceTurn has raised the counter of a locked room to the
\* cap.
C15_Witness ==
    /\ last.op = "advanceTurn"
    /\ last.resp = "ok"
    /\ rooms[1].currentTurn = MaxTurn
    /\ ~rooms[1].turnLocked

\* Room r is set started in this step and gets teams: the start-game
\* request was answered with success.
StartedNow(r) ==
    /\ ~rooms[r].gameStarted
    /\ rooms'[r].gameStarted
    /\ Len(rooms'[r].teams) > 0

\* C12: right after a successful start-game the room is started, unlocked,
\* at turn 0 with team 0 current, and 3 members in 2 teams give sizes
\* {2, 1}; every accepted end-turn moves the counter on by one, so that
\* after two of them in a room of 2 teams team 0 is current again.
C12_StartThenTwoTurns ==
    [][\A r \in RoomIds :
        /\ StartedNow(r) =>
                /\ ~rooms'[r].turnLocked
                /\ rooms'[r].currentTurn = 0
                /\ GetCurrentTeam(rooms'[r]) = rooms'[r].teams[1]
                /\ rooms'[r].teams[1].id = 0
                /\ (Len(rooms'[r].players) = 3 /\ Len(rooms'[r].teams) = 2)
                     => {Len(rooms'[r].teams[i].players) : i \in 1..2} = {1, 2}
        /\ (rooms[r].gameStarted /\ rooms'[r].gameStarted
                /\ rooms'[r].currentTurn # rooms[r].currentTurn)
             => rooms'[r].currentTurn = rooms[r].currentTurn + 1
        /\ (rooms'[r].gameStarted /\ Len(rooms'[r].teams) = 2
                /\ rooms'[r].currentTurn = 2)
             => GetCurrentTeam(rooms'[r]).id = 0
    ]_vars

\* A game of 3 members in 2 teams of sizes 2 and 1 in which two end-turn
\* requests have been accepted: team 0 is current.
C12_Witness ==
    \E r \in RoomIds :
        /\ rooms[r].gameStarted
        /\ Len(rooms[r].players) = 3
        /\ Len(rooms[r].teams) = 2
        /\ {Len(rooms[r].teams[i].players) : i \in 1..2} = {1, 2}
        /\ rooms[r].currentTurn = 2
        /\ GetCurrentTeam(rooms[r]).id = 0

\* C13: the started flag of a room goes from false to true only; while the
\* room is stored it is never set back to false.
C13_StartedNeverReverts ==
    [][\A r \in RoomIds :
        (rooms[r].gameStarted /\ rooms'[r].present) => rooms'[r].gameStarted
    ]_vars

\* A started room that has gone through an accepted end-turn and the
\* departure of a member, who still carries the team id.
C13_Witness ==
    \E r \in RoomIds :
        /\ rooms[r].gameStarted
        /\ rooms[r].currentTurn > 0
        /\ Len(rooms[r].teams) > 0
        /\ \E s \in Sockets :
                /\ players[s].present
                /\ players[s].teamId # NULL
                /\ s \notin Members(r)

\* The rejection start-game owes caller s for room r by the order
\* RoomNotFound, NotHost, AlreadyStarted, InsufficientPlayers; "ok" when the
\* four conditions hold.
StartGameOwed(s, r) ==
    IF ~rooms[r].present THEN "Room not found"
    ELSE IF rooms[r].hostSocketId # s THEN "Only host can start game"
    ELSE IF rooms[r].gameStarted THEN "Game already started"
    ELSE IF Cardinality(Members(r)) < 2 THEN "Need at least 2 players"
    ELSE "ok"

\* C14: start-game sets a room started only when the room exists, the
\* caller is its host, the game is not started and the room has at least 2
\* members; otherwise it answers RoomNotFound, NotHost, AlreadyStarted or
\* InsufficientPlayers, the first that applies in that order, and leaves the
\* store and the registry as they were.
C14_StartGameChecks ==
    [][\A r \in RoomIds :
        /\ \A s \in Sockets :
            /\ players[s].present
                    => StartGameCheck(s, r) = StartGameOwed(s, r)
            /\ StartGameOwed(s, r) # "ok"
                    => \A n \in NumTeamsInputs :
                            StartGame(s, r, n) => UNCHANGED <<rooms, players>>
        /\ (~rooms[r].gameStarted /\ rooms'[r].gameStarted)
                => /\ rooms[r].present
                   /\ Cardinality(Members(r)) >= 2
                   /\ \E s \in Sockets, n \in NumTeamsInputs :
                            StartGameOwed(s, r) = "ok" /\ StartGame(s, r, n)
    ]_vars

\* A started room and an unstarted room of one member, with a connection
\* that hosts neither: each of the rejections can be drawn here.
C14_Witness ==
    \E a, b \in RoomIds, s \in Sockets :
        /\ rooms[a].gameStarted
        /\ rooms[b].present /\ ~rooms[b].gameStarted
        /\ Len(rooms[b].players) = 1
        /\ players[s].present
        /\ rooms[a].hostSocketId # s /\ rooms[b].hostSocketId # s

\* C16: in every started room the team list is not empty, so that
\* getCurrentTeam returns one of the room's teams.
C16_StartedHasTeams ==
    \A r \in RoomIds :
        (rooms[r].present /\ rooms[r].gameStarted) => HasCurrentTeam(rooms[r])

\* C18: a join-room request for a started room is answered 'Game already
\* started' and changes nothing, and the member set of a started room never
\* gains a member.
C18_StartedRoomClosed ==
    [][\A r \in RoomIds :
        rooms[r].gameStarted =>
            /\ rooms'[r].present => Members(r)' \subseteq Members(r)
            /\ \A s \in Sockets :
                    JoinRoom(s, r) =>
                        /\ AddPlayerResult(rooms, r) = "Game already started"
                        /\ UNCHANGED <<rooms, players>>
    ]_vars

\* A started room and a registered connection outside it that is in no
\* room.
C18_Witness ==
    \E r \in RoomIds, s \in Sockets :
        /\ rooms[r].gameStarted
        /\ players[s].present
        /\ players[s].roomId = NULL
        /\ s \notin Members(r)

\* C17: no room ever holds more than MAX_PLAYERS_PER_ROOM members, and a
\* join to a room in the lobby that holds that many is answered 'Room is
\* full' and leaves the member list and the registry as they were.
C17_CapacityKept ==
    [][\A r \in RoomIds :
        /\ Len(rooms'[r].players) <= MAX_PLAYERS_PER_ROOM
        /\ \A s \in Sockets :
            (JoinRoom(s, r) /\ rooms[r].present /\ ~rooms[r].gameStarted
                /\ Len(rooms[r].players) = MAX_PLAYERS_PER_ROOM)
            => /\ last'.resp = "Room is full"
               /\ UNCHANGED <<rooms, players>>
    ]_vars

\* A join to a room of MAX_PLAYERS_PER_ROOM members, the last of whom had
\* joined by a request, has been answered 'Room is full'.
C17_Witness ==
    /\ last.op = "join-room"
    /\ last.resp = "Room is full"
    /\ Len(rooms[last.r].players) = MAX_PLAYERS_PER_ROOM
    /\ rooms[last.r].players[MAX_PLAYERS_PER_ROOM] \in Sockets
    /\ last.s \notin Members(last.r)

\* C19: every create-room request ends with a room or, after a bounded
\* number of colliding attempts, with ResourceExhausted.
C19_CreateRoomBounded ==
    last.op = "create-room" => last.resp \in {"ok", "ResourceExhausted"}

\* The stored rooms.
Stored(rms) == {r \in RoomIds : rms[r].present}

\* C20: when createRoom returns a room its code was not in the store
\* before, every room stored before is left as it was and the number of
\* rooms grows by one.
C20_CreateRoomFresh ==
    [][\A s \in Sockets :
        (CreateRoom(s) /\ last'.resp = "ok")
        => /\ last'.r \notin Stored(rooms)
           /\ last'.r \in Stored(rooms')
           /\ \A r \in Stored(rooms) : rooms'[r] = rooms[r]
           /\ Cardinality(Stored(rooms')) = Cardinality(Stored(rooms)) + 1
    ]_vars

\* createRoom has returned a room while another room was stored.
C20_Witness ==
    /\ last.op = "create-room"
    /\ last.resp = "ok"
    /\ \E r \in Stored(rooms) : r # last.r

\* C21: a leave-room naming a room of which the caller is not a member, or
\* that is not stored, changes no room and leaves the caller's registry
\* record (current room, team) as it was.
C21_LeaveNonMemberNoOp ==
    [][\A s \in Sockets : \A r \in RoomIds :
        (LeaveRoom(s, r) /\ s \notin Members(r))
        => /\ rooms' = rooms
           /\ players'[s] = players[s]
    ]_vars

\* --------------------------------------- removePlayerFromRoom on its own
\* The turn state of a room a player can be removed from: a lobby room, or
\* a started room at any turn, locked (a move is in flight) or not.
TurnInputs ==
    {[currentTurn |-> 0, gameStarted |-> FALSE, turnLocked |-> FALSE]} \cup
    {[currentTurn |-> k, gameStarted |-> TRUE, turnLocked |-> l] :
        k \in 0..MaxTurn, l \in BOOLEAN}

\* Room 1 with any member list, in the lobby or started with its members
\* dealt over the teams; every connection is registered.
InitRemove ==
    /\ \E m \in MemberLists : \E t \in TurnInputs :
       \E n \in 1..MaxTeams : \E js \in ShuffleChoices(Len(m)) :
        LET reg == [s \in Sockets |->
                        IF s \in SeqRange(m)
                        THEN [present |-> TRUE, roomId |-> 1, teamId |-> NULL]
                        ELSE NewPlayer]
            st == IF t.gameStarted
                  THEN AssignPlayersToTeams(m, CreateTeams(n), reg, js)
                  ELSE [teams |-> <<>>, reg |-> reg]
        IN  /\ rooms = [r \in RoomIds |->
                    IF r = 1
                    THEN [NewRoom(m[1]) EXCEPT !.players = m,
                                               !.teams = st.teams,
                                               !.currentTurn = t.currentTurn,
                                               !.gameStarted = t.gameStarted,
                                               !.turnLocked = t.turnLocked]
                    ELSE NoRoom]
            /\ players = st.reg
    /\ closed = {}
    /\ inflight = {}
    /\ observe = TRUE
    /\ last = NoRequest

NextRemove ==
    \/ \E s \in Sockets : \E r \in RoomIds : LeaveRoom(s, r)
    \/ \E s \in Sockets : Disconnect(s)

\* Leaves and disconnects applied to any room, started or not.
SpecRemove == InitRemove /\ [][NextRemove]_vars

\* C22: a leave-room or a disconnect that does not empty the room leaves
\* the room's turn counter, locked flag and started flag as they were.
C22_RemovalKeepsTurnState ==
    [][\A s \in Sockets : \A r \in RoomIds :
        (Removes(s, r) /\ rooms[r].present /\ rooms'[r].present)
        => /\ rooms'[r].currentTurn = rooms[r].currentTurn
           /\ rooms'[r].turnLocked = rooms[r].turnLocked
           /\ rooms'[r].gameStarted = rooms[r].gameStarted
    ]_vars

\* A member has been removed from a started room whose turn is locked and
\* whose counter has advanced; the room is still stored.
C22_Witness ==
    /\ last.op \in {"leave-room", "disconnect"}
    /\ last.resp \in {"left", "host-transferred"}
    /\ rooms[1].present
    /\ rooms[1].gameStarted
    /\ rooms[1].turnLocked
    /\ rooms[1].currentTurn > 0

\* A step of a handler whose payload names room a, sent over connection s.
Names(s, a) ==
    \/ JoinRoom(s, a)
    \/ LeaveRoom(s, a)
    \/ \E n \in NumTeamsInputs : StartGame(s, a, n)
    \/ \E f \in BOOLEAN : MakeMove(s, a, f)
    \/ EndTurn(s, a)
    \/ GetRoomInfo(s, a)

\* C23: a join-room, leave-room, start-game, make-move, end-turn or
\* get-room-info request naming room a, accepted or rejected, leaves every
\* other room (membership, host, teams, started flag, turn counter, lock)
\* as it was.
C23_OtherRoomsUntouched ==
    [][\A a, b \in RoomIds :
        a # b => \/ rooms'[b] = rooms[b]
                 \/ \A s \in Sockets : ~Names(s, a)
    ]_vars

\* Two rooms are stored, one in the lobby with two members and one started
\* whose turn has advanced: requests naming either have been served while
\* the other was stored.
C23_Witness ==
    \E a, b \in RoomIds :
        /\ a # b
        /\ rooms[a].present /\ rooms[a].gameStarted /\ rooms[a].currentTurn > 0
        /\ rooms[b].present /\ ~rooms[b].gameStarted /\ Len(rooms[b].players) > 1

\* ------------------------------------------------ requests with no payload
\* The handlers that destructure their payload.
PayloadHandlers ==
    {"join-room", "leave-room", "start-game", "make-move", "end-turn",
     "get-room-info"}

\* No response: the exception left the handler.
Unhandled == "TypeError"

\* What a handler answers when `const { roomId } = data` throws on a missing
\* payload: its catch answers 'Failed to ...', except that the catch of
\* make-move first reads data.roomId and throws again before it answers.
CatchAnswer(op) ==
    CASE op = "join-room" -> "Failed to join room"
      [] op = "leave-room" -> "Failed to leave room"
      [] op = "start-game" -> "Failed to start game"
      [] op = "make-move" -> Unhandled
      [] op = "end-turn" -> "Failed to end turn"
      [] op = "get-room-info" -> "Failed to get room info"

\* A request of a payload handler sent with an acknowledgement callback and
\* a null payload. Nothing is changed before the destructuring throws; an
\* exception that leaves the handler either is swallowed by the transport
\* or ends the process (no uncaughtException handler is installed), and
\* then the registry and the store are gone and no connection is served.
NoPayload(s, op, exits) ==
    /\ players[s].present
    /\ Note(op, s, NULL, CatchAnswer(op))
    /\ IF CatchAnswer(op) = Unhandled /\ exits
       THEN /\ players' = [c \in Sockets |-> NoPlayer]
            /\ rooms' = [r \in RoomIds |-> NoRoom]
            /\ closed' = Sockets
            /\ inflight' = {}
       ELSE UNCHANGED <<players, rooms, closed, inflight>>
    /\ UNCHANGED observe

NextPayload ==
    \/ Lobby
    \/ \E s \in Sockets, op \in PayloadHandlers, exits \in BOOLEAN :
            NoPayload(s, op, exits)

\* The connection, room and roster handlers, and every payload handler
\* called without its payload; every request recorded in `last`.
SpecPayload == InitObs /\ [][NextPayload]_vars

\* C24: every request, well-formed or with a missing payload, ends with a
\* structured response and never with an exception leaving the handler.
C24_AlwaysAnswered ==
    last.op \in PayloadHandlers \cup {"create-room"} => last.resp # Unhandled

\* ------------------------------------------------ the registry on its own
\* Registry records: absent, or present in any room (or none) with any team
\* (or none).
RegistryInputs ==
    {NoPlayer} \cup
    {[present |-> TRUE, roomId |-> r, teamId |-> t] :
        r \in {NULL} \cup RoomIds, t \in {NULL} \cup (0..(MaxTeams - 1))}

InitRegistry ==
    /\ players \in [Sockets -> RegistryInputs]
    /\ rooms = [r \in RoomIds |-> NoRoom]
    /\ closed = {}
    /\ inflight = {}
    /\ observe = TRUE
    /\ last = NoRequest

\* playerManager.createPlayer(socketId): a new record is built and stored
\* under socketId, whatever was stored there.
CreatePlayerCall(s) ==
    /\ players' = [players EXCEPT ![s] = NewPlayer]
    /\ Note("createPlayer", s, NULL, "player")
    /\ UNCHANGED <<closed, rooms, inflight, observe>>

\* playerManager.removePlayer(socketId)
RemovePlayerCall(s) ==
    /\ players' = RemovePlayer(players, s)
    /\ Note("removePlayer", s, NULL, "none")
    /\ UNCHANGED <<closed, rooms, inflight, observe>>

NextRegistry ==
    \/ \E s \in Sockets : CreatePlayerCall(s)
    \/ \E s \in Sockets : RemovePlayerCall(s)

\* createPlayer and removePlayer applied to any registry.
SpecRegistry == InitRegistry /\ [][NextRegistry]_vars

\* C25: createPlayer for a connection id that is already registered leaves
\* the registry as it was (the existing record stays).
C25_CreatePlayerIdempotent ==
    [][\A s \in Sockets :
        (CreatePlayerCall(s) /\ players[s].present) => players' = players
    ]_vars

\* C26: a player record is in the registry from its connection until its
\* disconnect: only a disconnect of that connection removes it (a leave-room
\* never does), a disconnect always removes it, and an absent record comes
\* back only by a createPlayer for its connection.
C26_RegisteredUntilDisconnect ==
    [][\A s \in Sockets :
        /\ (players[s].present /\ ~players'[s].present) => Disconnect(s)
        /\ (~players[s].present /\ players'[s].present) => Connect(s)
        /\ (s \in closed' /\ s \notin closed)
                => (Disconnect(s) /\ ~players'[s].present)
    ]_vars

\* A registered player has left its room and is still registered, and
\* another connection has disconnected and is absent from the registry.
C26_Witness ==
    \E s, c \in Sockets :
        /\ players[s].present
        /\ players[s].roomId = NULL
        /\ players[s].teamId # NULL
        /\ c \in closed
        /\ ~players[c].present

\* ------------------------------------------------- createTeams on its own
\* The largest team count createTeams is applied to on its own: more than
\* the six predefined names.
MaxNamedTeams == 8

\* room.teams = teamManager.createTeams(n) on room 1.
CreateTeamsCall(n) ==
    /\ rooms' = [rooms EXCEPT ![1].teams = CreateTeams(n)]
    /\ Note("createTeams", NULL, 1, "teams")
    /\ UNCHANGED <<players, closed, inflight, observe>>

\* createTeams applied to any room with any team count.
SpecCreateTeams ==
    InitValidate /\ [][\E n \in 0..MaxNamedTeams : CreateTeamsCall(n)]_vars

\* C27: for every n >= 1 createTeams(n) returns exactly n teams, each with
\* no member, with ids 0..n-1 in order; team i is named by the i-th of the
\* six predefined labels when i < 6 and "Team i+1" when i >= 6.
C27_CreateTeamsShape ==
    [][\A n \in 1..MaxNamedTeams :
        CreateTeamsCall(n)
        => LET teams == rooms'[1].teams
           IN  /\ Len(teams) = n
               /\ \A i \in 0..(n - 1) :
                    /\ teams[i + 1].id = i
                    /\ teams[i + 1].players = <<>>
                    /\ i < 6 => teams[i + 1].name = TeamNames[i + 1]
                    /\ i >= 6 => teams[i + 1].name = "Team " \o ToString(i + 1)
    ]_vars

\* createTeams has returned more teams than there are predefined names.
C27_Witness ==
    /\ last.op = "createTeams"
    /\ Len(rooms[1].teams) > Len(TeamNames)
    /\ rooms[1].teams[Len(TeamNames) + 1].name = "Team 7"

\* C28: in every started room, at every request boundary, the sizes of any
\* two teams differ by at most one.
C28_TeamsStayBalanced ==
    \A r \in RoomIds :
        (rooms[r].present /\ rooms[r].gameStarted)
        => \A i, j \in 1..Len(rooms[r].teams) :
            Len(rooms[r].teams[i].players) - Len(rooms[r].teams[j].players) <= 1

\* ------------------------------------------------ balanceTeams on its own
\* The most teams and the most members balanceTeams is applied to on its
\* own.
MaxBalanceTeams == 4
MaxBalancePlayers == 4

\* The members with the ids 1..n dealt over the teams by f (member -> team
\* position), in ascending order within a team.
Dealt(teams, n, f) ==
    [t \in 1..Len(teams) |->
        [teams[t] EXCEPT
            !.players = SelectSeq([i \in 1..n |-> i], LAMBDA i : f[i] = t)]]

\* Room 1 started, its members spread over its teams in any way, every
\* member registered with the id of its team.
InitBalance ==
    /\ \E nt \in 1..MaxBalanceTeams : \E n \in 1..MaxBalancePlayers :
       \E f \in [1..n -> 1..nt] :
        /\ rooms = [r \in RoomIds |->
                IF r = 1
                THEN [NewRoom(1) EXCEPT
                        !.players = [i \in 1..n |-> i],
                        !.teams = Dealt(CreateTeams(nt), n, f),
                        !.gameStarted = TRUE]
                ELSE NoRoom]
        /\ players = [s \in 1..MaxBalancePlayers |->
                IF s <= n
                THEN [present |-> TRUE, roomId |-> 1, teamId |-> f[s] - 1]
                ELSE NoPlayer]
    /\ closed = {}
    /\ inflight = {}
    /\ observe = TRUE
    /\ last = NoRequest

\* teamManager.balanceTeams(room.teams), to its return.
BalanceTeamsCall ==
    /\ LET st == BalanceTeams([teams |-> rooms[1].teams, reg |-> players])
       IN  /\ rooms' = [rooms EXCEPT ![1].teams = st.teams]
           /\ players' = st.reg
    /\ Note("balanceTeams", NULL, 1, "balanced")
    /\ UNCHANGED <<closed, inflight, observe>>

\* One invocation of balanceTeams up to its recursive call: the single move
\* it performs when the largest and the smallest team differ by more than
\* one. `last` keeps the player moved.
BalanceMove ==
    /\ MaxSize(rooms[1].teams) - MinSize(rooms[1].teams) > 1
    /\ LET st == MoveOne([teams |-> rooms[1].teams, reg |-> players])
           lg == rooms[1].teams[LargestTeam(rooms[1].teams)].players
       IN  /\ rooms' = [rooms EXCEPT ![1].teams = st.teams]
           /\ players' = st.reg
           /\ Note("balanceTeams", lg[Len(lg)], 1, "moved")
    /\ UNCHANGED <<closed, inflight, observe>>

NextBalance ==
    \/ BalanceTeamsCall
    \/ BalanceMove

\* balanceTeams applied to any distribution of members over teams, as a
\* whole and move by move.
SpecBalance == InitBalance /\ [][NextBalance]_vars

\* How many times s is listed in the teams.
Listed(teams, s) ==
    Cardinality({p \in UNION {{<<t, k>> : k \in 1..Len(teams[t].players)} :
                                t \in 1..Len(teams)} :
                    teams[p[1]].players[p[2]] = s})

\* The positions of the teams that list s.
TeamsOf(teams, s) ==
    {t \in 1..Len(teams) : s \in SeqRange(teams[t].players)}

\* C29: balanceTeams returns on every non-empty team list with any
\* distribution of members; on return the largest and the smallest team
\* differ by at most one, every member id is listed as often as before, and
\* the registry team id of every player that changed team is the id of the
\* team it was moved to.
C29_BalanceTeamsResult ==
    [][BalanceTeamsCall
        => /\ Len(rooms'[1].teams) = Len(rooms[1].teams)
           /\ MaxSize(rooms'[1].teams) - MinSize(rooms'[1].teams) <= 1
           /\ \A s \in 1..MaxBalancePlayers :
                /\ Listed(rooms'[1].teams, s) = Listed(rooms[1].teams, s)
                /\ TeamsOf(rooms'[1].teams, s) # TeamsOf(rooms[1].teams, s)
                    => \A t \in TeamsOf(rooms'[1].teams, s) :
                            players'[s].teamId = rooms'[1].teams[t].id
    ]_vars

\* balanceTeams has returned after a move: a team lists a member behind one
\* of a greater id (the teams it was given listed theirs in ascending
\* order), and the registry records that team for it.
C29_Witness ==
    /\ last.op = "balanceTeams"
    /\ last.resp = "balanced"
    /\ \E t \in 1..Len(rooms[1].teams) :
        LET members == rooms[1].teams[t].players
        IN  /\ Len(members) > 1
            /\ members[Len(members)] < members[Len(members) - 1]
            /\ players[members[Len(members)]].teamId = rooms[1].teams[t].id

\* The sum of the squares of the team sizes.
RECURSIVE SumSquares(_)
SumSquares(teams) ==
    IF Len(teams) = 0 THEN 0
    ELSE Len(teams[1].players) * Len(teams[1].players) + SumSquares(Tail(teams))

\* C30 as stated: every single move of balanceTeams strictly reduces the
\* difference between the largest and the smallest team size.
C30_MoveReducesGap ==
    [][BalanceMove
        => MaxSize(rooms'[1].teams) - MinSize(rooms'[1].teams)
            < MaxSize(rooms[1].teams) - MinSize(rooms[1].teams)
    ]_vars

\* C30 amended: every single move of balanceTeams never increases the
\* difference between the largest and the smallest team size and strictly
\* reduces the sum of the squared team sizes.
C30_MoveReducesSpread ==
    [][BalanceMove
        => /\ MaxSize(rooms'[1].teams) - MinSize(rooms'[1].teams)
                <= MaxSize(rooms[1].teams) - MinSize(rooms[1].teams)
           /\ SumSquares(rooms'[1].teams) < SumSquares(rooms[1].teams)
    ]_vars

\* A single move has been made between four teams and the largest and the
\* smallest still differ by two: the sizes 2, 2, 0, 0 have become
\* 2, 1, 1, 0.
C30_Witness ==
    /\ last.op = "balanceTeams"
    /\ last.resp = "moved"
    /\ TeamSizes(rooms[1].teams) = <<2, 1, 1, 0>>
    /\ rooms[1].teams[2].players = <<3>>
    /\ rooms[1].teams[3].players = <<4>>

\* C31: within any room a connection id is listed by at most one team and
\* at most once in it, and every id a team lists is a current member of
\* the room (so a removed id is in no team of the room).
C31_TeamsListMembersOnce ==
    \A r \in RoomIds :
        rooms[r].present
        => \A s \in Sockets :
            /\ Listed(rooms[r].teams, s) <= 1
            /\ Listed(rooms[r].teams, s) = 1 => s \in Members(r)

\* A started room still lists members in its teams after one of the
\* players dealt to a team has been removed from it.
C31_Witness ==
    \E r \in RoomIds : \E s, c \in Sockets :
        /\ rooms[r].present
        /\ rooms[r].gameStarted
        /\ Listed(rooms[r].teams, c) = 1
        /\ players[s].present
        /\ players[s].teamId # NULL
        /\ s \notin Members(r)
        /\ \A q \in RoomIds : s \notin Members(q)
        /\ Cardinality({q \in RoomIds : rooms[q].present /\ rooms[q].gameStarted}) = 1

\* ------------------------------------------------ reassignPlayer on its own
\* TeamManager.getTeamById: the position of the first team with the id, 0
\* when there is none.
GetTeamById(teams, teamId) ==
    IF \E i \in 1..Len(teams) : teams[i].id = teamId
    THEN CHOOSE i \in 1..Len(teams) :
            /\ teams[i].id = teamId
            /\ \A j \in 1..(i - 1) : teams[j].id # teamId
    ELSE 0

\* team.players.splice(team.players.indexOf(socketId), 1): the first
\* occurrence is taken out.
RECURSIVE SpliceFirst(_, _)
SpliceFirst(seq, x) ==
    IF Len(seq) = 0 THEN seq
    ELSE IF Head(seq) = x THEN Tail(seq)
    ELSE <<Head(seq)>> \o SpliceFirst(Tail(seq), x)

\* TeamManager.reassignPlayer: [teams, reg, result] afterwards. The player
\* is taken out of every team first, then the target team is looked up.
ReassignPlayer(st, socketId, newTeamId) ==
    LET removed == [i \in 1..Len(st.teams) |->
                        [st.teams[i] EXCEPT !.players = SpliceFirst(@, socketId)]]
        newTeam == GetTeamById(removed, newTeamId)
    IN  IF newTeam # 0
        THEN [teams |-> [removed EXCEPT ![newTeam].players = Append(@, socketId)],
              reg |-> SetPlayerTeam(st.reg, socketId, newTeamId),
              result |-> "ok"]
        ELSE [teams |-> removed, reg |-> st.reg, result |-> "Team not found"]

\* teamManager.reassignPlayer(room.teams, s, newTeamId) on room 1.
ReassignPlayerCall(s, newTeamId) ==
    /\ LET st == ReassignPlayer([teams |-> rooms[1].teams, reg |-> players],
                                s, newTeamId)
       IN  /\ rooms' = [rooms EXCEPT ![1].teams = st.teams]
           /\ players' = st.reg
           /\ Note("reassignPlayer", s, 1, st.result)
    /\ UNCHANGED <<closed, inflight, observe>>

\* reassignPlayer applied to any distribution of members over teams, any
\* player and any target id, present or not.
SpecReassign ==
    InitBalance
    /\ [][\E s \in 1..MaxBalancePlayers : \E t \in 0..MaxBalanceTeams :
            ReassignPlayerCall(s, t)]_vars

\* C32: reassignPlayer to an existing team leaves the player in exactly
\* that team and the registry team id set to it; to an absent team it
\* answers 'Team not found' and leaves every team's member list and the
\* player's registry team id as they were.
C32_ReassignPlayer ==
    [][\A s \in 1..MaxBalancePlayers : \A t \in 0..MaxBalanceTeams :
        ReassignPlayerCall(s, t)
        => IF GetTeamById(rooms[1].teams, t) # 0
           THEN /\ TeamsOf(rooms'[1].teams, s) = {GetTeamById(rooms[1].teams, t)}
                /\ Listed(rooms'[1].teams, s) = 1
                /\ players[s].present => players'[s].teamId = t
           ELSE /\ last'.resp = "Team not found"
                /\ rooms'[1].teams = rooms[1].teams
                /\ players'[s].teamId = players[s].teamId
    ]_vars

\* What advanceTurn leaves alone in room 1 whether it succeeds or not.
AdvanceFrame ==
    /\ rooms'[1].present = rooms[1].present
    /\ rooms'[1].teams = rooms[1].teams
    /\ rooms'[1].players = rooms[1].players
    /\ rooms'[1].hostSocketId = rooms[1].hostSocketId
    /\ rooms'[1].gameStarted = rooms[1].gameStarted

\* C33 as stated: advanceTurn on a started room increases the turn counter
\* by exactly one and changes nothing else in the room (locked flag, teams,
\* membership, host); on a room that is not started it fails and changes
\* nothing.
C33_AdvanceTurnFrame ==
    [][AdvanceTurnCall
        => IF rooms[1].gameStarted
           THEN /\ rooms'[1].currentTurn = rooms[1].currentTurn + 1
                /\ rooms'[1].turnLocked = rooms[1].turnLocked
                /\ AdvanceFrame
           ELSE /\ last'.resp = "Game has not started"
                /\ rooms' = rooms
    ]_vars

\* C33 amended: advanceTurn on a started room increases the turn counter by
\* exactly one, leaves the room unlocked (a held lock is released) and
\* changes nothing else; on a room that is not started it fails and changes
\* nothing.
C33_AdvanceTurnUnlocks ==
    [][AdvanceTurnCall
        => IF rooms[1].gameStarted
           THEN /\ rooms'[1].currentTurn = rooms[1].currentTurn + 1
                /\ rooms'[1].turnLocked = FALSE
                /\ AdvanceFrame
           ELSE /\ last'.resp = "Game has not started"
                /\ rooms' = rooms
    ]_vars

\* advanceTurn has succeeded on a started room with teams.
C33_Witness ==
    /\ last.op = "advanceTurn"
    /\ last.resp = "ok"
    /\ rooms[1].gameStarted
    /\ rooms[1].currentTurn = MaxTurn
    /\ ~rooms[1].turnLocked
    /\ Len(rooms[1].teams) = MaxTeams

\* The ordinal ids of the teams, in order.
TeamIds(teams) == [i \in 1..Len(teams) |-> teams[i].id]

\* C34: a room has no team until its game starts; its teams are created in
\* the step that starts the game, which also sets the turn counter to 0 and
\* the lock to false; from then on, as long as the room is stored, the game
\* stays started (no second start, no second initialization) and the number
\* of teams and their ids do not change.
C34_TeamsCreatedOnce ==
    [][\A r \in RoomIds :
        /\ (rooms'[r].present /\ ~rooms'[r].gameStarted)
                => rooms'[r].teams = <<>>
        /\ (rooms[r].present /\ rooms'[r].present)
            => /\ rooms[r].gameStarted
                    => /\ rooms'[r].gameStarted
                       /\ TeamIds(rooms'[r].teams) = TeamIds(rooms[r].teams)
               /\ TeamIds(rooms'[r].teams) # TeamIds(rooms[r].teams)
                    => /\ ~rooms[r].gameStarted
                       /\ rooms'[r].gameStarted
                       /\ rooms'[r].currentTurn = 0
                       /\ ~rooms'[r].turnLocked
    ]_vars

\* A started room whose turn has advanced still has its two teams, one of
\* them without any member left.
C34_Witness ==
    \E r \in RoomIds :
        /\ rooms[r].present
        /\ rooms[r].gameStarted
        /\ rooms[r].currentTurn > 0
        /\ TeamIds(rooms[r].teams) = <<0, 1>>
        /\ \E i \in 1..2 : rooms[r].teams[i].players = <<>>

\* The start-game request of s for room r with n teams is answered with a
\* failure: a rejection by the checks, or 'Failed to start game'.
StartGameFails(s, r, n) ==
    \/ StartGameCheck(s, r) # "ok"
    \/ AssignThrows(rooms[r].players, CreateTeams(n))

\* C35: a start-game request that is answered with a failure, for any team
\* count, leaves the room as it was (not started, no team, turn counter and
\* lock unchanged).
C35_FailedStartChangesNothing ==
    [][\A r \in RoomIds :
        \/ rooms'[r] = rooms[r]
        \/ \A s \in Sockets : \A n \in NumTeamsInputs :
            ~(StartGameFails(s, r, n) /\ StartGame(s, r, n))
    ]_vars

\* C36: every connection id in the member set of a stored room, and the
\* host of every stored room, belongs to a player present in the registry
\* (a disconnected connection is listed by no stored room).
C36_MembersRegistered ==
    \A r \in RoomIds :
        rooms[r].present
        => /\ \A s \in Members(r) : players[s].present
           /\ players[rooms[r].hostSocketId].present

\* C37: a registered player's room id is r exactly when stored room r has
\* the player's connection id in its member set, and it is null exactly
\* when no stored room has.
C37_RoomFieldAgrees ==
    \A s \in Sockets :
        players[s].present
        => /\ \A r \in RoomIds :
                players[s].roomId = r <=> (rooms[r].present /\ s \in Members(r))
           /\ players[s].roomId = NULL
                <=> \A r \in RoomIds : ~(rooms[r].present /\ s \in Members(r))

\* C38: a registered player's team id is t exactly when a started room of
\* which the player is a member lists the player's connection id in its
\* team t, and it is null when no started room does.
C38_TeamFieldAgrees ==
    \A s \in Sockets :
        players[s].present
        => LET teamsOfS ==
                {rooms[r].teams[i].id :
                    <<r, i>> \in {p \in RoomIds \X (1..MaxTeams) :
                        /\ rooms[p[1]].present
                        /\ rooms[p[1]].gameStarted
                        /\ s \in Members(p[1])
                        /\ p[2] <= Len(rooms[p[1]].teams)
                        /\ s \in SeqRange(rooms[p[1]].teams[p[2]].players)}}
           IN  /\ \A t \in 0..(MaxTeams - 1) :
                    players[s].teamId = t <=> t \in teamsOfS
               /\ teamsOfS = {} => players[s].teamId = NULL

\* C39: in every started room that is stored the current team exists and
\* lists at least one member of the room (so that some member's end-turn
\* would be accepted).
C39_CurrentTeamHasMember ==
    \A r \in RoomIds :
        (rooms[r].present /\ rooms[r].gameStarted)
        => /\ HasCurrentTeam(rooms[r])
           /\ \E s \in Members(r) : s \in SeqRange(GetCurrentTeam(rooms[r]).players)

====
